---------------------------- MODULE Spec2Model ----------------------------
(***************************************************************************)
(* A model of assemblyish: the tokenizer (parser.py), the instruction      *)
(* table (instruction.py) and the resolver/encoder (compiler.py).          *)
(*                                                                         *)
(* Representation.  A character is a one-character string.  A Python str   *)
(* is a sequence of characters.  A Python int is unbounded, so it is       *)
(* modelled by its canonical decimal numeral (a non-empty sequence of      *)
(* digit characters without leading zeros): 2**64 does not fit a TLC       *)
(* integer.  TLA+ naturals are used for list positions, lengths and the    *)
(* bytes (0..255) of the output only.                                      *)
(***************************************************************************)
EXTENDS Integers, Sequences, FiniteSets, TLC

\* ------------------------------------------------------------------------
\* Python int arithmetic on decimal numerals
\* ------------------------------------------------------------------------

DecDigits == <<"0", "1", "2", "3", "4", "5", "6", "7", "8", "9">>

HexDigits == <<"0", "1", "2", "3", "4", "5", "6", "7", "8", "9",
               "a", "b", "c", "d", "e", "f">>

DigitVal(c) == (CHOOSE i \in 1..Len(HexDigits) : HexDigits[i] = c) - 1

RECURSIVE StripZeros(_)
StripZeros(ds) ==
    IF Len(ds) > 1 /\ ds[1] = "0" THEN StripZeros(Tail(ds)) ELSE ds

\* int(text) for a non-empty run of decimal digits: int("007") is 7.
\* int(n) of an int is that int: a canonical numeral is left as it is.
int(value) == StripZeros(value)

\* a > b on canonical numerals
RECURSIVE LexGt(_, _)
LexGt(a, b) ==
    IF a = <<>> THEN FALSE
    ELSE IF DigitVal(a[1]) # DigitVal(b[1]) THEN DigitVal(a[1]) > DigitVal(b[1])
    ELSE LexGt(Tail(a), Tail(b))

IntGt(a, b) == Len(a) > Len(b) \/ (Len(a) = Len(b) /\ LexGt(a, b))

\* a * m + c for a numeral a and small naturals m, c (schoolbook, right to left)
RECURSIVE MulAddDigits(_, _, _)
MulAddDigits(a, m, c) ==
    IF a = <<>> THEN (IF c = 0 THEN <<>> ELSE MulAddDigits(<<"0">>, m, c))
    ELSE LET n == Len(a)
             v == DigitVal(a[n]) * m + c
         IN  MulAddDigits(SubSeq(a, 1, n - 1), m, v \div 10) \o <<DecDigits[(v % 10) + 1]>>

IntMulAdd(a, m, c) == StripZeros(MulAddDigits(a, m, c))

IntSucc(a) == IntMulAdd(a, 1, 1)

\* the numeral of a TLA+ natural
RECURSIVE Numeral(_)
Numeral(n) == IF n < 10 THEN <<DecDigits[n + 1]>>
              ELSE Numeral(n \div 10) \o <<DecDigits[(n % 10) + 1]>>

\* 2**e, multiplying by 2**24 at a time
RECURSIVE TwoPow(_)
TwoPow(e) == IF e <= 24 THEN Numeral(2 ^ e)
             ELSE IntMulAdd(TwoPow(e - 24), 2 ^ 24, 0)

\* divmod(a, 16) by long division, left to right: <<quotient digits, remainder>>
RECURSIVE LongDiv16(_, _, _)
LongDiv16(a, q, r) ==
    IF a = <<>> THEN <<q, r>>
    ELSE LET v == r * 10 + DigitVal(a[1])
         IN  LongDiv16(Tail(a), q \o <<DecDigits[(v \div 16) + 1]>>, v % 16)

DivMod16(a) == LET d == LongDiv16(a, <<>>, 0)
               IN  [q |-> StripZeros(d[1]), r |-> d[2]]

RECURSIVE HexOf(_)
HexOf(a) == LET d == DivMod16(a)
            IN  IF d.q = <<"0">> THEN <<HexDigits[d.r + 1]>>
                ELSE HexOf(d.q) \o <<HexDigits[d.r + 1]>>

\* hex(num): "0x" and the hexadecimal digits, lower case
hex(num) == <<"0", "x">> \o HexOf(num)

\* str.zfill(width)
RECURSIVE zfill(_, _)
zfill(s, width) == IF Len(s) >= width THEN s ELSE zfill(<<"0">> \o s, width)

\* int(s, 16) of a run of hexadecimal digits of a byte's width
RECURSIVE int16(_)
int16(s) == IF s = <<>> THEN 0
            ELSE int16(SubSeq(s, 1, Len(s) - 1)) * 16 + DigitVal(s[Len(s)])

\* ------------------------------------------------------------------------
\* Compilable: the encoders (compiler.py)
\* ------------------------------------------------------------------------

NumberTag == 254
StringTag == 253

\* make_bytes with the bytes in the opposite order
make_bytes_little_endian(num, length) ==
    LET h  == hex(num)
        bs == zfill(SubSeq(h, 3, Len(h)), length * 2)
    IN  [i \in 1..length |->
            int16(SubSeq(bs, (length - i) * 2 + 1, (length - i) * 2 + 2))]

\* Compilable.make_bytes(num, length)
make_bytes(num, length) ==
    LET h  == hex(num)
        bs == zfill(SubSeq(h, 3, Len(h)), length * 2)
    IN  [i \in 1..length |-> int16(SubSeq(bs, (i - 1) * 2 + 1, (i - 1) * 2 + 2))]

Ok(bytes) == [ok |-> TRUE, bytes |-> bytes]
Raise(cls, kind) == [ok |-> FALSE, cls |-> cls, kind |-> kind]

IntegerLimit == TwoPow(64)

\* compile_int without the tag byte
compile_int_untagged(integer) ==
    IF IntGt(integer, IntegerLimit)
    THEN Raise("CompilationError", "IntegerTooLarge")
    ELSE Ok(make_bytes(integer, 8))

\* Compilable.compile_int(integer)
compile_int(integer) ==
    IF IntGt(integer, IntegerLimit)
    THEN Raise("CompilationError", "IntegerTooLarge")
    ELSE Ok(<<NumberTag>> \o make_bytes(integer, 8))

\* ord(c) of the characters the model's string literals are made of; the
\* last one stands for a character outside Latin-1 (the euro sign, 8364).
CharCode == ("h" :> 104) @@ ("i" :> 105) @@ ("U+20AC" :> 8364)

ord(c) == CharCode[c]

\* Compilable.compile_string(string)
compile_string(string) ==
    IF \E k \in 1..Len(string) : ord(string[k]) > 255
    THEN Raise("CompilationError", "CharacterOutOfRange")
    ELSE LET length == Numeral(Len(string))
         IN  IF IntGt(length, TwoPow(32))
             THEN Raise("CompilationError", "StringTooLong")
             ELSE Ok(<<StringTag>> \o make_bytes(length, 4)
                     \o [k \in 1..Len(string) |-> ord(string[k])])

\* The loop of Compilable.compile over self.args: vars and gotos are the
\* dicts the record refers to, as they are when the record is encoded.
RECURSIVE compile_args(_, _, _, _, _)
compile_args(args, is_goto, compiled_bytes, vars, gotos) ==
    IF args = <<>> THEN Ok(compiled_bytes)
    ELSE LET a == Head(args)
             rest == Tail(args)
         IN  CASE a.type = "STR" ->
                    LET r == compile_string(a.value)
                    IN  IF r.ok
                        THEN compile_args(rest, is_goto, compiled_bytes \o r.bytes, vars, gotos)
                        ELSE r
               [] a.type = "IDT" /\ is_goto ->
                    IF a.value \in DOMAIN gotos
                    THEN compile_args(rest, FALSE,
                                      compiled_bytes \o make_bytes(gotos[a.value], 8), vars, gotos)
                    ELSE Raise("KeyError", "KeyError")
               [] a.type = "IDT" /\ ~is_goto ->
                    IF a.value \in DOMAIN vars
                    THEN compile_args(rest, is_goto,
                                      compiled_bytes \o make_bytes(vars[a.value], 8), vars, gotos)
                    ELSE Raise("KeyError", "KeyError")
               [] a.type = "NUM" ->
                    LET r == compile_int(int(a.value))
                    IN  IF r.ok
                        THEN compile_args(rest, is_goto, compiled_bytes \o r.bytes, vars, gotos)
                        ELSE r
               [] OTHER -> compile_args(rest, is_goto, compiled_bytes, vars, gotos)

\* Compilable.compile() of record c
Compilable_compile(c, vars, gotos) ==
    compile_args(c.args, c.byte = 249, <<c.byte>>, vars, gotos)

\* ------------------------------------------------------------------------
\* Tokens and the instruction table (parser.py, instruction.py)
\* ------------------------------------------------------------------------

None == <<"None">>

Token(type, line, index, value) ==
    [type |-> type, line |-> line, index |-> index, value |-> value]

Argument(types, required) == [types |-> types, required |-> required]

Instruction(byte, args) == [byte |-> byte, args |-> args]

\* Argument.match(thing)
Argument_match(a, thing) == thing.type \in a.types

\* The loop of Instruction.match from position k (1-based) on
RECURSIVE match_from(_, _, _)
match_from(args, line, k) ==
    IF k > Len(args) THEN TRUE
    ELSE IF k = Len(line) + 1 THEN ~args[k].required
    ELSE IF ~Argument_match(args[k], line[k]) THEN FALSE
    ELSE match_from(args, line, k + 1)

\* match without the test of the length of the line
match_any_length(instr, line) == match_from(instr.args, line, 1)

\* Instruction.match(line)
match(instr, line) ==
    IF Len(line) > Len(instr.args) THEN FALSE ELSE match_from(instr.args, line, 1)

Arith == Instruction(0, <<Argument({"NUM", "IDT"}, TRUE), Argument({"NUM", "IDT"}, FALSE)>>)
Store == Instruction(0, <<Argument({"IDT"}, TRUE), Argument({"NUM", "STR", "IDT"}, FALSE)>>)

instructions ==
    (<<"A", "D", "D">> :> [Arith EXCEPT !.byte = 1]) @@
    (<<"S", "U", "B">> :> [Arith EXCEPT !.byte = 2]) @@
    (<<"M", "U", "L">> :> [Arith EXCEPT !.byte = 3]) @@
    (<<"D", "I", "V">> :> [Arith EXCEPT !.byte = 4]) @@
    (<<"P", "O", "W">> :> [Arith EXCEPT !.byte = 5]) @@
    (<<"M", "O", "D">> :> [Arith EXCEPT !.byte = 6]) @@
    (<<"R", "A", "N">> :> [Arith EXCEPT !.byte = 7]) @@
    (<<"S", "T", "O">> :> [Store EXCEPT !.byte = 65]) @@
    (<<"L", "O", "D">> :> [Store EXCEPT !.byte = 66]) @@
    (<<"O", "U", "T">> :> Instruction(129, <<Argument({"NUM", "IDT"}, FALSE)>>)) @@
    (<<"O", "U", "T", "S">> :> Instruction(130, <<Argument({"STR", "IDT"}, FALSE)>>))

GOTO == Instruction(249, <<Argument({"IDT"}, TRUE)>>)
VAR == Instruction(250, <<Argument({"IDT"}, TRUE)>>)

\* Compiler.getlines() of a token list
RECURSIVE getlines_from(_, _, _)
getlines_from(toks, lines, line) ==
    IF toks = <<>> THEN (IF line # <<>> THEN Append(lines, line) ELSE lines)
    ELSE IF Head(toks).type = "NEWLINE"
         THEN (IF line # <<>> THEN getlines_from(Tail(toks), Append(lines, line), <<>>)
                              ELSE getlines_from(Tail(toks), lines, line))
         ELSE getlines_from(Tail(toks), lines, Append(line, Head(toks)))

getlines(toks) == getlines_from(toks, <<>>, <<>>)

\* ------------------------------------------------------------------------
\* Parser: the tokenizer (parser.py)
\* ------------------------------------------------------------------------
\* The cursor self.index counts from 0 as in the source: the character
\* code[index] of the source is c[index + 1] here.  The model's texts hold
\* no backslash and no underscore.

Letters == {"a"}
DecimalDigits == {"0", "1", "2", "3", "4", "5", "6", "7", "8", "9"}
Whitespace == {" ", "\n", "\r", "\t"}

isalpha(ch) == ch \in Letters
isdigit(ch) == ch \in DecimalDigits
isspace(ch) == ch \in Whitespace

\* str.upper() of the model's letters
UpperOf == ("a" :> "A")

upper(str) == [k \in 1..Len(str) |-> IF str[k] \in DOMAIN UpperOf THEN UpperOf[str[k]] ELSE str[k]]

\* where the longest run of characters of `class` that starts at idx ends
RECURSIVE run_end(_, _, _)
run_end(c, idx, class) ==
    IF idx < Len(c) /\ c[idx + 1] \in class THEN run_end(c, idx + 1, class) ELSE idx

\* Token.identifier, \w*
identifier_end(c, idx) == run_end(c, idx, Letters \cup DecimalDigits)

\* Token.number, \d*
number_end(c, idx) == run_end(c, idx, DecimalDigits)

\* Token.comment, ;.* (the dot takes every character but the newline)
comment_end(c, idx) == run_end(c, idx, {c[k] : k \in 1..Len(c)} \ {"\n"})

\* Token.string searched from the quote at idx: with no backslash in the
\* text it ends after the next quote; -1 when there is none (search gives None)
string_end(c, idx) ==
    IF \E q \in (idx + 2)..Len(c) : c[q] = "\""
    THEN CHOOSE q \in (idx + 2)..Len(c) :
            c[q] = "\"" /\ \A r \in (idx + 2)..(q - 1) : c[r] # "\""
    ELSE -1

\* Token.whitespace, (^)? *(\r?\n)? : where the match ends and whether
\* group 2, the line end, took part
whitespace_match(c, idx) ==
    LET sp == run_end(c, idx, {" "})
    IN  IF sp < Len(c) /\ c[sp + 1] = "\n"
        THEN [end |-> sp + 1, newline |-> TRUE]
        ELSE IF sp + 1 < Len(c) /\ c[sp + 1] = "\r" /\ c[sp + 2] = "\n"
        THEN [end |-> sp + 2, newline |-> TRUE]
        ELSE [end |-> sp, newline |-> FALSE]

Step(idx, ln, fin, res) == [index |-> idx, line |-> ln, finished |-> fin, res |-> res]

Got(tok) == [ok |-> TRUE, token |-> tok]

\* Parser.next(), with process_identifier, process_regex and
\* process_whitespace: the fields after the call and the token returned or
\* the exception raised.  process_whitespace calls next() again when no
\* line end was taken; when its match is empty that call repeats itself
\* without end, which Python ends with RecursionError.
RECURSIVE next(_, _, _, _)
next(c, idx, ln, fin) ==
    IF idx = Len(c) - 1
    THEN Step(idx, ln, TRUE, Got(Token("EOF", ln, idx, None)))
    ELSE IF idx >= Len(c)
    THEN Step(idx, ln, fin, Raise("IndexError", "IndexError"))
    ELSE LET char == c[idx + 1]
         IN  CASE isalpha(char) ->
                    LET e == identifier_end(c, idx)
                    IN  Step(e, ln, fin, Got(Token("IDT", ln, e, upper(SubSeq(c, idx + 1, e)))))
               [] isdigit(char) ->
                    LET e == number_end(c, idx)
                    IN  Step(e, ln, fin, Got(Token("NUM", ln, e, SubSeq(c, idx + 1, e))))
               [] char = ";" ->
                    LET e == comment_end(c, idx)
                    IN  Step(e, ln, fin, Got(Token("COM", ln, e, SubSeq(c, idx + 1, e))))
               [] char = "\"" ->
                    LET e == string_end(c, idx)
                    IN  IF e < 0
                        THEN Step(idx, ln, fin, Raise("AttributeError", "AttributeError"))
                        ELSE Step(e, ln, fin, Got(Token("STR", ln, e, SubSeq(c, idx + 1, e))))
               [] char = "." ->
                    Step(idx + 1, ln, fin, Got(Token("VAR", ln, idx + 1, None)))
               [] char = ":" ->
                    Step(idx + 1, ln, fin, Got(Token("GOTO", ln, idx + 1, None)))
               [] isspace(char) ->
                    LET ws == whitespace_match(c, idx)
                    IN  IF ws.newline
                        THEN Step(ws.end, ln + 1, fin,
                                  Got(Token("NEWLINE", ln + 1, ws.end, None)))
                        ELSE IF ws.end = idx
                        THEN Step(idx, ln, fin, Raise("RecursionError", "RecursionError"))
                        ELSE next(c, ws.end, ln, fin)
               [] OTHER ->
                    Step(idx, ln, fin, Raise("UnexpectToken", "UnexpectToken"))

NotExtra(symbol) == symbol.type \notin {"START", "EOF", "COM"}

\* the end of Parser.parse(): START, EOF and COM dropped, the quotes of
\* every STR value cut off
parse_result(syms) ==
    LET kept == SelectSeq(syms, NotExtra)
    IN  [k \in 1..Len(kept) |->
            IF kept[k].type = "STR"
            THEN [kept[k] EXCEPT !.value = SubSeq(@, 2, Len(@) - 1)]
            ELSE kept[k]]

\* ------------------------------------------------------------------------
\* Compiler (compiler.py)
\* ------------------------------------------------------------------------

\* A record of Compiler.instrs.  vars and gotos name the dict object the
\* record refers to: "self" for the Compiler's own table, passed by
\* reference, "default" for the default argument {} of Compilable.__init__,
\* one object shared by every record built without the argument.
Compilable(byte, line, index, args, resolved_vars, resolved_gotos) ==
    [byte |-> byte, line |-> line, index |-> index, args |-> args,
     vars |-> resolved_vars, gotos |-> resolved_gotos]

Accept(vs, gs, id, rec) ==
    [ok |-> TRUE, variables |-> vs, gotos |-> gs, var_goto_id |-> id, rec |-> rec]

\* undeclared with one name space for variables and labels
undeclared_in_both(first, token, vs, gs) ==
    /\ token.type = "IDT"
    /\ token.value \notin (DOMAIN vs \cup DOMAIN gs)

\* The test of compile() on an operand token of a line led by `first`:
\* an identifier that is not in the table the mnemonic reads
undeclared(first, token, vs, gs) ==
    /\ token.type = "IDT"
    /\ IF first.value # <<"G", "O", "T", "O">>
       THEN token.value \notin DOMAIN vs
       ELSE token.value \notin DOMAIN gs

\* next_id without the increment
next_id_unchanged(id) == id

\* self.var_goto_id += 1
next_id(id) == IntSucc(id)

\* line[1] of a line that may hold one token only
RaiseAt1(line, kind) ==
    IF Len(line) < 2 THEN Raise("IndexError", "IndexError")
    ELSE Raise("CompilationError", kind)

\* resolve_line with a declaration that starts its table afresh
resolve_line_forgetful(line, vs, gs, id) ==
    LET first == line[1]
        rest  == Tail(line)
    IN  CASE first.type = "IDT" ->
               IF first.value \notin DOMAIN instructions
               THEN Raise("CompilationError", "UnknownInstruction")
               ELSE LET instruction == instructions[first.value]
                    IN  IF ~match(instruction, rest)
                        THEN RaiseAt1(line, "ArgumentMismatch")
                        ELSE IF \E k \in 1..Len(rest) : undeclared(first, rest[k], vs, gs)
                        THEN Raise("CompilationError", "UndeclaredSymbol")
                        ELSE Accept(vs, gs, id,
                                    Compilable(instruction.byte, first.line, first.index,
                                               rest, "self", "self"))
          [] first.type = "VAR" ->
               IF ~match(VAR, rest)
               THEN RaiseAt1(line, "DeclarationSignature")
               ELSE Accept((line[2].value :> id), gs, next_id(id),
                           Compilable(VAR.byte, first.line, first.index,
                                      <<Token("NUM", 0, 0, id)>>, "default", "default"))
          [] first.type = "GOTO" ->
               IF ~match(GOTO, rest)
               THEN RaiseAt1(line, "DeclarationSignature")
               ELSE Accept(vs, (line[2].value :> id), next_id(id),
                           Compilable(GOTO.byte, first.line, first.index,
                                      <<Token("NUM", 0, 0, id)>>, "default", "default"))
          [] OTHER -> Raise("CompilationError", "InvalidLineStart")

\* resolve_line with a declaration that keeps the id of a name already
\* in its table
resolve_line_first_wins(line, vs, gs, id) ==
    LET first == line[1]
        rest  == Tail(line)
    IN  CASE first.type = "IDT" ->
               IF first.value \notin DOMAIN instructions
               THEN Raise("CompilationError", "UnknownInstruction")
               ELSE LET instruction == instructions[first.value]
                    IN  IF ~match(instruction, rest)
                        THEN RaiseAt1(line, "ArgumentMismatch")
                        ELSE IF \E k \in 1..Len(rest) : undeclared(first, rest[k], vs, gs)
                        THEN Raise("CompilationError", "UndeclaredSymbol")
                        ELSE Accept(vs, gs, id,
                                    Compilable(instruction.byte, first.line, first.index,
                                               rest, "self", "self"))
          [] first.type = "VAR" ->
               IF ~match(VAR, rest)
               THEN RaiseAt1(line, "DeclarationSignature")
               ELSE Accept(vs @@ (line[2].value :> id), gs, next_id(id),
                           Compilable(VAR.byte, first.line, first.index,
                                      <<Token("NUM", 0, 0, id)>>, "default", "default"))
          [] first.type = "GOTO" ->
               IF ~match(GOTO, rest)
               THEN RaiseAt1(line, "DeclarationSignature")
               ELSE Accept(vs, gs @@ (line[2].value :> id), next_id(id),
                           Compilable(GOTO.byte, first.line, first.index,
                                      <<Token("NUM", 0, 0, id)>>, "default", "default"))
          [] OTHER -> Raise("CompilationError", "InvalidLineStart")

\* One pass of the loop of Compiler.compile over self.lines, on `line`
resolve_line(line, vs, gs, id) ==
    LET first == line[1]
        rest  == Tail(line)
    IN  CASE first.type = "IDT" ->
               IF first.value \notin DOMAIN instructions
               THEN Raise("CompilationError", "UnknownInstruction")
               ELSE LET instruction == instructions[first.value]
                    IN  IF ~match(instruction, rest)
                        THEN RaiseAt1(line, "ArgumentMismatch")
                        ELSE IF \E k \in 1..Len(rest) : undeclared(first, rest[k], vs, gs)
                        THEN Raise("CompilationError", "UndeclaredSymbol")
                        ELSE Accept(vs, gs, id,
                                    Compilable(instruction.byte, first.line, first.index,
                                               rest, "self", "self"))
          [] first.type = "VAR" ->
               IF ~match(VAR, rest)
               THEN RaiseAt1(line, "DeclarationSignature")
               ELSE Accept((line[2].value :> id) @@ vs, gs, next_id(id),
                           Compilable(VAR.byte, first.line, first.index,
                                      <<Token("NUM", 0, 0, id)>>, "default", "default"))
          [] first.type = "GOTO" ->
               IF ~match(GOTO, rest)
               THEN RaiseAt1(line, "DeclarationSignature")
               ELSE Accept(vs, (line[2].value :> id) @@ gs, next_id(id),
                           Compilable(GOTO.byte, first.line, first.index,
                                      <<Token("NUM", 0, 0, id)>>, "default", "default"))
          [] OTHER -> Raise("CompilationError", "InvalidLineStart")

\* ------------------------------------------------------------------------
\* Inputs
\* ------------------------------------------------------------------------

MaxLines == 2
MaxRuns == 2

Idt(name) == Token("IDT", 0, 0, name)
Num(text) == Token("NUM", 0, 0, text)
Str(text) == Token("STR", 0, 0, text)
Dot == Token("VAR", 0, 0, None)
Colon == Token("GOTO", 0, 0, None)
Newline == Token("NEWLINE", 0, 0, None)

X == <<"X">>
Y == <<"Y">>
ADD == <<"A", "D", "D">>
STO == <<"S", "T", "O">>

OUTS == <<"O", "U", "T", "S">>

Statements ==
    { <<Dot, Idt(X)>>,                                  \* .x
      <<Dot, Idt(Y)>>,                                  \* .y
      <<Colon, Idt(X)>>,                                \* :x
      <<Idt(STO), Idt(X), Num(<<"4", "2">>)>>,          \* STO x 42
      <<Idt(ADD), Num(<<"5">>), Num(<<"1", "0">>)>>,    \* ADD 5 10
      <<Idt(OUTS), Str(<<"h", "i">>)>>,                 \* OUTS "hi"
      <<Idt(<<"G", "O", "T", "O">>), Idt(X)>>,          \* GOTO x
      <<Idt(ADD)>>,                                     \* ADD
      <<Dot>>,                                          \* .
      <<Dot, Idt(X), Idt(Y)>>,                          \* . x y
      <<Num(<<"5">>)>>,                                 \* 5
      <<Idt(STO), Num(<<"5">>), Idt(X)>>,               \* STO 5 x
      <<Idt(OUTS), Str(<<"U+20AC">>)>>,                 \* OUTS and a character above 255
      <<Idt(ADD), Num(IntSucc(TwoPow(64)))>>,           \* ADD 18446744073709551617
      <<>> }                                            \* a blank line

RECURSIVE SeqsUpTo(_, _)
SeqsUpTo(S, n) ==
    IF n = 0 THEN {<<>>}
    ELSE LET shorter == SeqsUpTo(S, n - 1)
         IN  shorter \cup {Append(p, s) : p \in {q \in shorter : Len(q) = n - 1}, s \in S}

\* The token list the tokenizer hands over for a program: a NEWLINE token
\* between two lines and none after the last one.
RECURSIVE Join(_)
Join(p) == IF p = <<>> THEN <<>>
           ELSE IF Len(p) = 1 THEN p[1]
           ELSE p[1] \o <<Newline>> \o Join(Tail(p))

\* the program the specification works through: .x, STO x 1, .x
BlankLines ==
    << <<Idt(ADD), Num(<<"5">>), Num(<<"1", "0">>)>>, <<>>, <<>>, <<Idt(OUTS), Str(<<"h", "i">>)>> >>

\* and a program with blank lines in it: ADD 5 10, two blank lines, OUTS "hi"
Examples ==
    { << <<Dot, Idt(X)>>, <<Idt(STO), Idt(X), Num(<<"1">>)>>, <<Dot, Idt(X)>> >>,
      BlankLines }

Programs == {Join(p) : p \in SeqsUpTo(Statements, MaxLines) \cup Examples}

MaxLen == 4

Alphabet == {"a", "1", " ", "\n", "\r", ".", ":", ";", "\"", "$"}

\* the source texts: every text of at most MaxLen characters
Texts == SeqsUpTo(Alphabet, MaxLen)

MaxExp == 66
MaxDelta == 2

\* a - 1 for a numeral a above 0
RECURSIVE PredDigits(_)
PredDigits(a) ==
    LET n == Len(a)
        d == DigitVal(a[n])
    IN  IF d > 0 THEN SubSeq(a, 1, n - 1) \o <<DecDigits[d]>>
        ELSE PredDigits(SubSeq(a, 1, n - 1)) \o <<"9">>

RECURSIVE IntMinus(_, _)
IntMinus(a, d) == IF d = 0 \/ a = <<"0">> THEN a
                  ELSE IntMinus(StripZeros(PredDigits(a)), d - 1)

\* the integers handed to compile_int: the powers of two up to 2**MaxExp
\* and the integers within MaxDelta of one
IntInputs ==
    {IntMulAdd(TwoPow(e), 1, d) : e \in 0..MaxExp, d \in 0..MaxDelta}
    \cup {IntMinus(TwoPow(e), d) : e \in 0..MaxExp, d \in 1..MaxDelta}

FileStates == {[exists |-> FALSE, content |-> <<>>], [exists |-> TRUE, content |-> <<255>>]}

\* ------------------------------------------------------------------------
\* State
\* ------------------------------------------------------------------------

VARIABLES
    tokens, lines, variables, gotos, var_goto_id, instrs,  \* the Compiler's fields
    default_vars, default_gotos,   \* the default dicts of Compilable.__init__
    pc,          \* "idle", "compile" (inside compile()), "write", "raised"
    via,         \* the outermost call: "compile" or "save"
    i, j, code,  \* compile()'s position in self.lines and self.instrs, and its list code
    err,         \* the exception that left the call
    file,        \* the file save() is given
    file_before, \* that file as it was when the outermost call began
    writes,      \* the calls of write on it
    inst,        \* how many Compilers the process has built
    outputs,     \* what each call of compile() so far returned or raised
    p_code, p_index, p_line, p_finished,   \* the Parser's fields code, index, line, finished
    symbols,     \* parse()'s list symbols, and in the end the list it returns
    p_pc,        \* "new", "ready" (constructed), "parse", "done", "raised"
    p_err,       \* the exception that left the Parser
    integer, int_bytes,  \* a call of compile_int: its argument and what it gave
    m_instr, m_line, m_res,   \* a call of Instruction.match: descriptor, tokens, result
    prog_a, prog_b,      \* the record lists (self.instrs) of two compilations
    bytes_a, bytes_b     \* what the encode pass gave for each

compilerVars == <<tokens, lines, variables, gotos, var_goto_id, instrs, default_vars,
                  default_gotos, pc, via, i, j, code, err, file, file_before, writes,
                  inst, outputs>>

parserVars == <<p_code, p_index, p_line, p_finished, symbols, p_pc, p_err>>

intVars == <<integer, int_bytes>>

matchVars == <<m_instr, m_line, m_res>>

pairVars == <<prog_a, prog_b, bytes_a, bytes_b>>

vars == <<compilerVars, parserVars, intVars, matchVars, pairVars>>

Pending == [ok |-> FALSE, cls |-> "none", kind |-> "pending"]

NoError == [ok |-> TRUE]

\* Compiler_init with var_goto_id kept on the class, not set per instance
Compiler_init_counter_shared(toks) ==
    /\ tokens' = toks
    /\ variables' = <<>>
    /\ gotos' = <<>>
    /\ var_goto_id' = var_goto_id
    /\ instrs' = <<>>
    /\ lines' = getlines(toks)

\* Compiler.__init__(filename, tokens)
Compiler_init(toks) ==
    /\ tokens' = toks
    /\ variables' = <<>>
    /\ gotos' = <<>>
    /\ var_goto_id' = <<"1">>
    /\ instrs' = <<>>
    /\ lines' = getlines(toks)

\* no Parser at work
ParserIdle ==
    /\ p_code = <<>>
    /\ p_index = 0
    /\ p_line = 0
    /\ p_finished = FALSE
    /\ symbols = <<>>
    /\ p_pc = "none"
    /\ p_err = NoError

\* no call of compile_int on its own
IntIdle ==
    /\ integer = <<"0">>
    /\ int_bytes = Pending

\* no call of Instruction.match on its own
MatchIdle ==
    /\ m_instr = VAR
    /\ m_line = <<>>
    /\ m_res = Pending

\* no pair of record lists to encode
PairIdle ==
    /\ prog_a = <<>>
    /\ prog_b = <<>>
    /\ bytes_a = Pending
    /\ bytes_b = Pending

CompilerInit(toks, f) ==
    /\ tokens = toks
    /\ variables = <<>>
    /\ gotos = <<>>
    /\ var_goto_id = <<"1">>
    /\ instrs = <<>>
    /\ lines = getlines(tokens)
    /\ default_vars = <<>>
    /\ default_gotos = <<>>
    /\ pc = "idle"
    /\ via = "none"
    /\ i = 1
    /\ j = 1
    /\ code = <<>>
    /\ err = NoError
    /\ file = f
    /\ file_before = file
    /\ writes = 0
    /\ inst = 1
    /\ outputs = <<>>

Init ==
    /\ \E toks \in Programs : CompilerInit(toks, [exists |-> FALSE, content |-> <<>>])
    /\ ParserIdle
    /\ IntIdle
    /\ MatchIdle
    /\ PairIdle

\* entering the outermost call; f is the file the call is given, as it is
Enter(how, f) ==
    /\ pc = "idle"
    /\ Len(outputs) < MaxRuns
    /\ pc' = "compile"
    /\ via' = how
    /\ i' = 1
    /\ j' = 1
    /\ code' = <<>>
    /\ file_before' = f
    /\ UNCHANGED <<tokens, lines, variables, gotos, var_goto_id, instrs, default_vars,
                   default_gotos, err, writes, inst, outputs>>
    /\ UNCHANGED <<parserVars, intVars, matchVars, pairVars>>

\* a call of Compiler.compile()
compile == Enter("compile", file) /\ UNCHANGED file

\* a call of Compiler.save(filename) on a file that is absent or holds
\* data: open(filename, "wb"), then save_to_file
save ==
    \E f \in FileStates :
        /\ Enter("save", f)
        /\ file' = [exists |-> TRUE, content |-> <<>>]

Throw(r) ==
    /\ pc' = "raised"
    /\ err' = r
    /\ outputs' = Append(outputs, [inst |-> inst, res |-> r])

\* Compiler.compile(): one pass of the loop over self.lines
compile_resolve ==
    /\ pc = "compile"
    /\ i <= Len(lines)
    /\ LET r == resolve_line(lines[i], variables, gotos, var_goto_id)
       IN  IF r.ok
           THEN /\ variables' = r.variables
                /\ gotos' = r.gotos
                /\ var_goto_id' = r.var_goto_id
                /\ instrs' = Append(instrs, r.rec)
                /\ i' = i + 1
                /\ UNCHANGED <<pc, err, outputs>>
           ELSE /\ Throw(r)
                /\ UNCHANGED <<variables, gotos, var_goto_id, instrs, i>>
    /\ UNCHANGED <<tokens, lines, default_vars, default_gotos, via, j, code, file,
                   file_before, writes, inst>>
    /\ UNCHANGED <<parserVars, intVars, matchVars, pairVars>>

Deref(ref, own, shared) == IF ref = "self" THEN own ELSE shared

\* compile_encode run as soon as a record is there, the loop over
\* self.lines not yet left
compile_encode_eager ==
    /\ pc = "compile"
    /\ j <= Len(instrs)
    /\ LET c == instrs[j]
           r == Compilable_compile(c, Deref(c.vars, variables, default_vars),
                                      Deref(c.gotos, gotos, default_gotos))
       IN  IF r.ok
           THEN /\ code' = code \o r.bytes
                /\ j' = j + 1
                /\ UNCHANGED <<pc, err, outputs>>
           ELSE /\ Throw(r)
                /\ UNCHANGED <<code, j>>
    /\ UNCHANGED <<tokens, lines, variables, gotos, var_goto_id, instrs, default_vars,
                   default_gotos, via, i, file, file_before, writes, inst>>
    /\ UNCHANGED <<parserVars, intVars, matchVars, pairVars>>

\* Compiler.compile(): one pass of the loop over self.instrs
compile_encode ==
    /\ pc = "compile"
    /\ i > Len(lines)
    /\ j <= Len(instrs)
    /\ LET c == instrs[j]
           r == Compilable_compile(c, Deref(c.vars, variables, default_vars),
                                      Deref(c.gotos, gotos, default_gotos))
       IN  IF r.ok
           THEN /\ code' = code \o r.bytes
                /\ j' = j + 1
                /\ UNCHANGED <<pc, err, outputs>>
           ELSE /\ Throw(r)
                /\ UNCHANGED <<code, j>>
    /\ UNCHANGED <<tokens, lines, variables, gotos, var_goto_id, instrs, default_vars,
                   default_gotos, via, i, file, file_before, writes, inst>>
    /\ UNCHANGED <<parserVars, intVars, matchVars, pairVars>>

\* Compiler.compile(): return code
compile_return ==
    /\ pc = "compile"
    /\ i > Len(lines)
    /\ j > Len(instrs)
    /\ outputs' = Append(outputs, [inst |-> inst, res |-> Ok(code)])
    /\ pc' = IF via = "save" THEN "write" ELSE "idle"
    /\ UNCHANGED <<tokens, lines, variables, gotos, var_goto_id, instrs, default_vars,
                   default_gotos, via, i, j, code, err, file, file_before, writes, inst>>
    /\ UNCHANGED <<parserVars, intVars, matchVars, pairVars>>

\* Compiler.save_to_file(writable): writable.write(bytes(code))
save_to_file ==
    /\ pc = "write"
    /\ file' = [file EXCEPT !.content = @ \o code]
    /\ writes' = writes + 1
    /\ pc' = "idle"
    /\ UNCHANGED <<tokens, lines, variables, gotos, var_goto_id, instrs, default_vars,
                   default_gotos, via, i, j, code, err, file_before, inst, outputs>>
    /\ UNCHANGED <<parserVars, intVars, matchVars, pairVars>>

\* a fresh Compiler on the tokens of the same text
new_Compiler ==
    /\ pc = "idle"
    /\ Len(outputs) < MaxRuns
    /\ outputs # <<>>
    /\ outputs[Len(outputs)].inst = inst
    /\ Compiler_init(tokens)
    /\ inst' = inst + 1
    /\ UNCHANGED <<default_vars, default_gotos, pc, via, i, j, code, err, file,
                   file_before, writes, outputs>>
    /\ UNCHANGED <<parserVars, intVars, matchVars, pairVars>>

Next ==
    \/ compile
    \/ save
    \/ compile_resolve
    \/ compile_encode
    \/ compile_return
    \/ save_to_file
    \/ new_Compiler

\* The Compiler on the token list of a program, called through compile()
\* and save(), and rebuilt on the same tokens.
Spec == Init /\ [][Next]_vars

\* ------------------------------------------------------------------------
\* The Parser on a text
\* ------------------------------------------------------------------------

\* Parser_init with the check of the last character left out
Parser_init_any_ending ==
    /\ p_pc = "new"
    /\ p_index' = 0
    /\ p_line' = 0
    /\ p_finished' = FALSE
    /\ IF Len(p_code) = 0
       THEN p_pc' = "raised" /\ p_err' = Raise("LexingError", "NoCode")
       ELSE p_pc' = "ready" /\ p_err' = p_err
    /\ UNCHANGED <<p_code, symbols>>
    /\ UNCHANGED <<compilerVars, intVars, matchVars, pairVars>>

\* Parser_init with the line count started at 1
Parser_init_line_one ==
    /\ p_pc = "new"
    /\ p_index' = 0
    /\ p_line' = 1
    /\ p_finished' = FALSE
    /\ IF Len(p_code) = 0
       THEN p_pc' = "raised" /\ p_err' = Raise("LexingError", "NoCode")
       ELSE IF p_code[Len(p_code)] # "\n"
       THEN p_pc' = "raised" /\ p_err' = Raise("LexingError", "NoNewline")
       ELSE p_pc' = "ready" /\ p_err' = p_err
    /\ UNCHANGED <<p_code, symbols>>
    /\ UNCHANGED <<compilerVars, intVars, matchVars, pairVars>>

\* Parser.__init__(code)
Parser_init ==
    /\ p_pc = "new"
    /\ p_index' = 0
    /\ p_line' = 0
    /\ p_finished' = FALSE
    /\ IF Len(p_code) = 0
       THEN p_pc' = "raised" /\ p_err' = Raise("LexingError", "NoCode")
       ELSE IF p_code[Len(p_code)] # "\n"
       THEN p_pc' = "raised" /\ p_err' = Raise("LexingError", "NoNewline")
       ELSE p_pc' = "ready" /\ p_err' = p_err
    /\ UNCHANGED <<p_code, symbols>>
    /\ UNCHANGED <<compilerVars, intVars, matchVars, pairVars>>

\* Parser.parse(): symbols = [Token("START", 0, 0)]
parse ==
    /\ p_pc = "ready"
    /\ p_pc' = "parse"
    /\ symbols' = <<Token("START", 0, 0, None)>>
    /\ UNCHANGED <<p_code, p_index, p_line, p_finished, p_err>>
    /\ UNCHANGED <<compilerVars, intVars, matchVars, pairVars>>

\* Parser.parse(): one pass of the while loop
parse_next ==
    /\ p_pc = "parse"
    /\ symbols[Len(symbols)].type # "EOF"
    /\ LET s == next(p_code, p_index, p_line, p_finished)
       IN  /\ p_index' = s.index
           /\ p_line' = s.line
           /\ p_finished' = s.finished
           /\ IF s.res.ok
              THEN /\ symbols' = Append(symbols, s.res.token)
                   /\ UNCHANGED <<p_pc, p_err>>
              ELSE /\ p_pc' = "raised"
                   /\ p_err' = s.res
                   /\ UNCHANGED symbols
    /\ UNCHANGED p_code
    /\ UNCHANGED <<compilerVars, intVars, matchVars, pairVars>>

\* Parser.parse(): after the loop
parse_return ==
    /\ p_pc = "parse"
    /\ symbols[Len(symbols)].type = "EOF"
    /\ symbols' = parse_result(symbols)
    /\ p_pc' = "done"
    /\ UNCHANGED <<p_code, p_index, p_line, p_finished, p_err>>
    /\ UNCHANGED <<compilerVars, intVars, matchVars, pairVars>>

ParseNext ==
    \/ Parser_init
    \/ parse
    \/ parse_next
    \/ parse_return

ParseInit ==
    /\ p_code \in Texts
    /\ p_index = 0
    /\ p_line = 0
    /\ p_finished = FALSE
    /\ symbols = <<>>
    /\ p_pc = "new"
    /\ p_err = NoError
    /\ CompilerInit(<<>>, [exists |-> FALSE, content |-> <<>>])
    /\ IntIdle
    /\ MatchIdle
    /\ PairIdle

\* A Parser built on a text and asked to parse() it.
SpecParse == ParseInit /\ [][ParseNext]_vars

\* ------------------------------------------------------------------------
\* compile_int on an integer
\* ------------------------------------------------------------------------

call_compile_int ==
    /\ int_bytes = Pending
    /\ int_bytes' = compile_int(integer)
    /\ UNCHANGED integer
    /\ UNCHANGED <<compilerVars, parserVars, matchVars, pairVars>>

IntInit ==
    /\ integer \in IntInputs
    /\ int_bytes = Pending
    /\ CompilerInit(<<>>, [exists |-> FALSE, content |-> <<>>])
    /\ ParserIdle
    /\ MatchIdle
    /\ PairIdle

IntNext == call_compile_int

\* Compilable.compile_int called on an integer.
SpecInt == IntInit /\ [][IntNext]_vars

\* ------------------------------------------------------------------------
\* Instruction.match on a descriptor and a line of operand tokens
\* ------------------------------------------------------------------------

MaxOperands == 3

\* the descriptors of the table and the two declaration descriptors
Descriptors == {instructions[name] : name \in DOMAIN instructions} \cup {GOTO, VAR}

\* one token of each kind a line can hold after its first token
OperandTokens == {Num(<<"5">>), Idt(X), Str(<<"h", "i">>), Dot}

call_match ==
    /\ m_res = Pending
    /\ m_res' = [ok |-> TRUE, accepts |-> match(m_instr, m_line)]
    /\ UNCHANGED <<m_instr, m_line>>
    /\ UNCHANGED <<compilerVars, parserVars, intVars, pairVars>>

MatchInit ==
    /\ m_instr \in Descriptors
    /\ m_line \in SeqsUpTo(OperandTokens, MaxOperands)
    /\ m_res = Pending
    /\ CompilerInit(<<>>, [exists |-> FALSE, content |-> <<>>])
    /\ ParserIdle
    /\ IntIdle
    /\ PairIdle

MatchNext == call_match

\* Instruction.match called on a descriptor and a line.
SpecMatch == MatchInit /\ [][MatchNext]_vars

\* ------------------------------------------------------------------------
\* The encode pass on two record lists
\* ------------------------------------------------------------------------

MaxRecs == 2

\* the variable table the records of the two lists refer to
PairTable == (X :> <<"1">>) @@ (Y :> <<"2">>)

\* records as the resolve pass builds them, operands of every kind
Records ==
    { Compilable(1, 0, 0, <<Num(<<"5">>)>>, "self", "self"),                  \* ADD 5
      Compilable(1, 0, 0, <<Num(<<"5">>), Num(<<"1", "0">>)>>, "self", "self"), \* ADD 5 10
      Compilable(1, 0, 0, <<Idt(X)>>, "self", "self"),                         \* ADD x
      Compilable(1, 0, 0, <<Idt(Y)>>, "self", "self"),                         \* ADD y
      Compilable(129, 0, 0, <<>>, "self", "self"),                             \* OUT
      Compilable(129, 0, 0, <<Idt(X)>>, "self", "self"),                       \* OUT x
      Compilable(130, 0, 0, <<Str(<<"h", "i">>)>>, "self", "self"),            \* OUTS "hi"
      Compilable(65, 0, 0, <<Idt(X), Str(<<"h", "i">>)>>, "self", "self"),     \* STO x "hi"
      Compilable(VAR.byte, 0, 0, <<Num(<<"1">>)>>, "default", "default"),      \* .x
      Compilable(1, 0, 0, <<Num(TwoPow(60))>>, "self", "self"),                \* ADD 2**60
      Compilable(1, 0, 0, <<Num(TwoPow(64))>>, "self", "self") }               \* ADD 2**64

RecordLists == SeqsUpTo(Records, MaxRecs)

\* The loop of Compiler.compile over self.instrs: code.extend(c.compile())
RECURSIVE encode_records(_, _, _, _)
encode_records(recs, out, vs, gs) ==
    IF recs = <<>> THEN Ok(out)
    ELSE LET r == Compilable_compile(Head(recs), vs, gs)
         IN  IF r.ok THEN encode_records(Tail(recs), out \o r.bytes, vs, gs)
             ELSE r

encode_pair ==
    /\ bytes_a = Pending
    /\ bytes_a' = encode_records(prog_a, <<>>, PairTable, <<>>)
    /\ bytes_b' = encode_records(prog_b, <<>>, PairTable, <<>>)
    /\ UNCHANGED <<prog_a, prog_b>>
    /\ UNCHANGED <<compilerVars, parserVars, intVars, matchVars>>

PairInit ==
    /\ prog_a \in RecordLists
    /\ prog_b \in RecordLists
    /\ bytes_a = Pending
    /\ bytes_b = Pending
    /\ CompilerInit(<<>>, [exists |-> FALSE, content |-> <<>>])
    /\ ParserIdle
    /\ IntIdle
    /\ MatchIdle

PairNext == encode_pair

\* The encode pass of compile() run on two record lists.
SpecPair == PairInit /\ [][PairNext]_vars


\* ------------------------------------------------------------------------
\* Vocabulary of the properties
\* ------------------------------------------------------------------------

\* the line is the declaration statement `.name`
IsVarDecl(l, name) ==
    Len(l) = 2 /\ l[1].type = "VAR" /\ l[2].type = "IDT" /\ l[2].value = name

\* the line is the declaration statement `:name`
IsLabelDecl(l, name) ==
    Len(l) = 2 /\ l[1].type = "GOTO" /\ l[2].type = "IDT" /\ l[2].value = name

\* a call of compile() is under way or has just raised
InCall == pc \in {"compile", "write", "raised"}

\* the call has taken statement k and gone on
Accepted(k) == InCall /\ i > k

\* the call has raised while resolving statement k
Rejected(k) == pc = "raised" /\ i = k

\* the call has left the loop over self.lines
Encoding == InCall /\ i > Len(lines)

\* the value of a decimal numeral below 2^31
RECURSIVE NatOf(_)
NatOf(ds) == IF ds = <<>> THEN 0
             ELSE NatOf(SubSeq(ds, 1, Len(ds) - 1)) * 10 + DigitVal(ds[Len(ds)])

\* the w big-endian bytes of a natural below 2^31
BigEndian(n, w) ==
    [k \in 1..w |-> IF w - k >= 4 THEN 0 ELSE (n \div (256 ^ (w - k))) % 256]

\* the bytes the format prescribes for an operand token
ExpectedOperand(tok) ==
    CASE tok.type = "NUM" -> <<254>> \o BigEndian(NatOf(tok.value), 8)
      [] tok.type = "STR" -> <<253>> \o BigEndian(Len(tok.value), 4)
                             \o [k \in 1..Len(tok.value) |-> CharCode[tok.value[k]]]
      [] tok.type = "IDT" -> BigEndian(NatOf(variables[tok.value]), 8)

RECURSIVE ExpectedOperands(_)
ExpectedOperands(toks) ==
    IF toks = <<>> THEN <<>>
    ELSE ExpectedOperand(Head(toks)) \o ExpectedOperands(Tail(toks))

\* how many bytes a record takes in the output
OperandLen(tok) ==
    CASE tok.type = "NUM" -> 9
      [] tok.type = "STR" -> 5 + Len(tok.value)
      [] tok.type = "IDT" -> 8

RECURSIVE OperandsLen(_)
OperandsLen(toks) ==
    IF toks = <<>> THEN 0 ELSE OperandLen(Head(toks)) + OperandsLen(Tail(toks))

RecLen(c) == 1 + OperandsLen(c.args)

RECURSIVE Offset(_)
Offset(k) == IF k = 1 THEN 0 ELSE Offset(k - 1) + RecLen(instrs[k - 1])

\* the bytes of code that record k of self.instrs produced
Segment(k) == SubSeq(code, Offset(k) + 1, Offset(k) + RecLen(instrs[k]))

\* the statement record k was built from: every call of compile() on one
\* Compiler appends one record per statement to self.instrs
LineOf(k) == lines[((k - 1) % Len(lines)) + 1]

IsDeclRecord(c) == c.byte \in {VAR.byte, GOTO.byte}

\* the records of the declaration statements, in the order they were taken
DeclRecords == SelectSeq(instrs, IsDeclRecord)

\* ------------------------------------------------------------------------
\* C1
\* ------------------------------------------------------------------------

\* statement k is led by a mnemonic of the table, its operands fit the
\* descriptor, and one of them is an identifier that no earlier `.name`
\* statement declares
C1_Case(k) ==
    LET l == lines[k]
    IN  /\ l[1].type = "IDT"
        /\ l[1].value \in DOMAIN instructions
        /\ match(instructions[l[1].value], Tail(l))
        /\ \E m \in 2..Len(l) :
             /\ l[m].type = "IDT"
             /\ ~\E e \in 1..(k - 1) : IsVarDecl(lines[e], l[m].value)

C2_IdsFromOneCounter ==
    /\ \A k \in 1..Len(DeclRecords) : DeclRecords[k].args[1].value = Numeral(k)
    /\ \A k \in 1..(Len(DeclRecords) - 1) :
          IntGt(DeclRecords[k + 1].args[1].value, DeclRecords[k].args[1].value)
    /\ var_goto_id = Numeral(Len(DeclRecords) + 1)
    /\ \A n \in DOMAIN variables : \E k \in 1..Len(DeclRecords) : variables[n] = Numeral(k)
    /\ \A n \in DOMAIN gotos : \E k \in 1..Len(DeclRecords) : gotos[n] = Numeral(k)
    /\ \A n, m \in DOMAIN variables : n # m => variables[n] # variables[m]
    /\ \A n, m \in DOMAIN gotos : n # m => gotos[n] # gotos[m]
    /\ \A n \in DOMAIN variables : \A m \in DOMAIN gotos : variables[n] # gotos[m]

\* a variable and a label of the same name declared by two statements
C2_Witness ==
    /\ Len(DeclRecords) = 2
    /\ DOMAIN variables = {X}
    /\ DOMAIN gotos = {X}
    /\ variables[X] # gotos[X]
    /\ Accepted(2)

\* ------------------------------------------------------------------------
\* C3
\* ------------------------------------------------------------------------

C5_ValidationRaisesCompilationError ==
    \A k \in 1..Len(lines) :
        LET l == lines[k]
        IN  Rejected(k) =>
              /\ err.cls = "CompilationError"
              /\ ( /\ l[1].type = "IDT"
                   /\ l[1].value \in DOMAIN instructions
                   /\ ~match(instructions[l[1].value], Tail(l)) ) =>
                     err.kind = "ArgumentMismatch"
              /\ ( /\ l[1].type \in {"VAR", "GOTO"}
                   /\ ~(Len(l) = 2 /\ l[2].type = "IDT") ) =>
                     err.kind = "DeclarationSignature"

\* ------------------------------------------------------------------------
\* C6
\* ------------------------------------------------------------------------

\* statement k is `GOTO name`
IsLabelJump(l) ==
    Len(l) = 2 /\ l[1].type = "IDT" /\ l[1].value = <<"G", "O", "T", "O">>
               /\ l[2].type = "IDT"

\* C6: a statement `GOTO name` the call reaches is accepted when an earlier
\* `:name` declared the label, and is then encoded as 249 and the 8
\* big-endian bytes of the label's id; it fails with UndeclaredSymbol when
\* the label table does not hold the name.
C6_LabelJumpResolved ==
    \A k \in 1..Len(lines) :
        LET l == lines[k]
        IN  IsLabelJump(l) =>
              IF \E e \in 1..(k - 1) : IsLabelDecl(lines[e], l[2].value)
              THEN /\ ~Rejected(k)
                   /\ (Encoding /\ k < j) =>
                         Segment(k) = <<249>> \o BigEndian(NatOf(gotos[l[2].value]), 8)
              ELSE /\ ~Accepted(k)
                   /\ Rejected(k) => err = Raise("CompilationError", "UndeclaredSymbol")

\* ------------------------------------------------------------------------
\* C8
\* ------------------------------------------------------------------------

\* C8: when the call fails with a CompilationError, at a statement or at
\* an operand, the file is as it was before the call (absent, or with the
\* content it had) and write has not been called on it.
C8_NoOutputOnFailure ==
    (pc = "raised" /\ err.cls = "CompilationError") =>
        (file = file_before /\ writes = 0)

\* ------------------------------------------------------------------------
\* C9
\* ------------------------------------------------------------------------

\* entry a of outputs is the first compile() of its Compiler
FirstCall(a) == \A b \in 1..(a - 1) : outputs[b].inst # outputs[a].inst

\* C9: the first compile() of every fresh Compiler built on the tokens of
\* one text gives the same result, whatever ran before it in the process.
C9_FreshRunsAgree ==
    \A a, b \in 1..Len(outputs) :
        (FirstCall(a) /\ FirstCall(b)) => outputs[a].res = outputs[b].res

\* a second Compiler has compiled a program that declares and uses x
C9_Witness ==
    /\ Len(outputs) = 2
    /\ outputs[1].inst = 1
    /\ outputs[2].inst = 2
    /\ outputs[2].res.ok
    /\ \E k \in 1..Len(lines) : IsVarDecl(lines[k], X)
    /\ \E k \in 1..Len(lines) : lines[k] = <<Idt(STO), Idt(X), Num(<<"4", "2">>)>>

\* ------------------------------------------------------------------------
\* C4
\* ------------------------------------------------------------------------

\* the text is not empty and ends with a newline
EndsWithNewline(c) == c # <<>> /\ c[Len(c)] = "\n"

\* the text holds no quote, so no string literal begins in it
NoQuote(c) == \A k \in 1..Len(c) : c[k] # "\""

\* C4: on a non-empty text that ends with a newline (here one without a
\* string literal, with spaces and carriage returns anywhere) the scan stops
\* either with the EOF token, the cursor on the final position, or with a
\* LexingError or UnexpectToken; no other failure ends it.
C4_ScanEndsWithEofOrLexingError ==
    (EndsWithNewline(p_code) /\ NoQuote(p_code)) =>
        /\ p_pc = "raised" => p_err.cls \in {"LexingError", "UnexpectToken"}
        /\ p_pc = "done" => p_index = Len(p_code) - 1

\* ------------------------------------------------------------------------
\* C7
\* ------------------------------------------------------------------------

\* C7: once the constructor has run on the empty text or on a text whose
\* last character is not a newline, it has raised a LexingError and no
\* token has been produced.
C7_ConstructorRejects ==
    (p_pc # "new" /\ ~EndsWithNewline(p_code)) =>
        /\ p_pc = "raised"
        /\ p_err.cls = "LexingError"
        /\ symbols = <<>>

\* the constructor has rejected the text `a 1`, which has no final newline
C7_Witness ==
    /\ p_code = <<"a", " ", "1">>
    /\ p_pc = "raised"
    /\ p_err = Raise("LexingError", "NoNewline")

\* ------------------------------------------------------------------------
\* C10
\* ------------------------------------------------------------------------

\* 256^w
RECURSIVE Pow256(_)
Pow256(w) == IF w = 0 THEN <<"1">> ELSE IntMulAdd(Pow256(w - 1), 256, 0)

\* the integer a run of bytes stands for, most significant byte first
RECURSIVE ValueOf(_)
ValueOf(bytes) ==
    IF bytes = <<>> THEN <<"0">>
    ELSE IntMulAdd(ValueOf(SubSeq(bytes, 1, Len(bytes) - 1)), 256, bytes[Len(bytes)])

\* C10: compile_int of v fails with IntegerTooLarge when v is above 256^8;
\* otherwise it gives the number tag and exactly 8 bytes that are v written
\* big-endian, also for v = 256^8.
C10_NumberEncoding ==
    int_bytes # Pending =>
        IF IntGt(integer, Pow256(8))
        THEN int_bytes = Raise("CompilationError", "IntegerTooLarge")
        ELSE /\ int_bytes.ok
             /\ Len(int_bytes.bytes) = 9
             /\ int_bytes.bytes[1] = NumberTag
             /\ \A k \in 2..9 : int_bytes.bytes[k] \in 0..255
             /\ ValueOf(Tail(int_bytes.bytes)) = integer

\* ------------------------------------------------------------------------
\* C11
\* ------------------------------------------------------------------------

\* what the resolve pass settled for an operand: the value of a NUMBER,
\* the text of a STRING, the id of an identifier
ResolvedOperand(tok) ==
    CASE tok.type = "NUM" -> <<"NUM", int(tok.value)>>
      [] tok.type = "STR" -> <<"STR", tok.value>>
      [] tok.type = "IDT" -> <<"IDT", PairTable[tok.value]>>

\* the resolved sequence of a record list: opcode and resolved operands
Resolved(recs) ==
    [k \in 1..Len(recs) |->
        [byte |-> recs[k].byte,
         operands |-> [m \in 1..Len(recs[k].args) |-> ResolvedOperand(recs[k].args[m])]]]

\* C11: two record lists that both encode and whose resolved sequences
\* (opcodes and operands) differ never give the same bytes.
C11_DistinctResolvedDistinctBytes ==
    (bytes_a.ok /\ bytes_b.ok /\ Resolved(prog_a) # Resolved(prog_b)) =>
        bytes_a.bytes # bytes_b.bytes

\* ------------------------------------------------------------------------
\* C12
\* ------------------------------------------------------------------------

\* a step inside one call of compile()
InCompilation == pc = "compile"

\* C12 as stated: during a compilation no entry of either table is removed
\* and no entry's id changes, also when the name is declared again.
C12_EntriesNeverReassigned ==
    [][InCompilation =>
          /\ \A n \in DOMAIN variables :
                n \in DOMAIN variables' /\ variables'[n] = variables[n]
          /\ \A n \in DOMAIN gotos :
                n \in DOMAIN gotos' /\ gotos'[n] = gotos[n]]_vars

\* C12 amended: during a compilation no entry of either table is removed,
\* and an entry's id changes only in the step that resolves a declaration
\* of the same name for the same table, where it becomes the counter's
\* value, which is above the id it had.
C12_EntriesKeptReassignedOnlyByRedeclaration ==
    [][InCompilation =>
          /\ \A n \in DOMAIN variables :
                /\ n \in DOMAIN variables'
                /\ \/ variables'[n] = variables[n]
                   \/ /\ i <= Len(lines)
                      /\ IsVarDecl(lines[i], n)
                      /\ variables'[n] = var_goto_id
                      /\ IntGt(variables'[n], variables[n])
          /\ \A n \in DOMAIN gotos :
                /\ n \in DOMAIN gotos'
                /\ \/ gotos'[n] = gotos[n]
                   \/ /\ i <= Len(lines)
                      /\ IsLabelDecl(lines[i], n)
                      /\ gotos'[n] = var_goto_id
                      /\ IntGt(gotos'[n], gotos[n])]_vars

\* `.x` and `.x` again, both taken in the first compile(): x has the id 2
C12_Witness ==
    /\ Len(lines) = 2
    /\ IsVarDecl(lines[1], X)
    /\ IsVarDecl(lines[2], X)
    /\ Len(instrs) = 2
    /\ variables = (X :> <<"2">>)

\* ------------------------------------------------------------------------
\* C13
\* ------------------------------------------------------------------------

\* how many of the first k tokens of syms are NEWLINE tokens
NewlinesUpTo(syms, k) == Cardinality({m \in 1..k : syms[m].type = "NEWLINE"})

\* C13 as stated: every token read from the text (START and EOF aside)
\* carries the 1-based number of its line, 1 on the first line and one more
\* after each newline.
C13_LineIsOneBased ==
    \A k \in 1..Len(symbols) :
        symbols[k].type \notin {"START", "EOF"} =>
            symbols[k].line = 1 + NewlinesUpTo(symbols, k - 1)

\* C13 amended: every token carries the number of NEWLINE tokens produced
\* up to and including itself: 0 on the first line, and a NEWLINE token
\* and the tokens after it one more than the tokens before it.
C13_LineCountsNewlineTokens ==
    \A k \in 1..Len(symbols) : symbols[k].line = NewlinesUpTo(symbols, k)

\* `a`, newline, `1`, newline has been parsed: a on line 0, 1 on line 1
C13_Witness ==
    /\ p_code = <<"a", "\n", "1", "\n">>
    /\ p_pc = "done"
    /\ Len(symbols) = 3
    /\ symbols[1].line = 0
    /\ symbols[2].type = "NEWLINE"
    /\ symbols[3].line = 1

\* ------------------------------------------------------------------------
\* C14
\* ------------------------------------------------------------------------

\* C14: match accepts a line exactly when it is no longer than the
\* descriptor's argument specs, the kind of every token is allowed by the
\* spec at its position, and every spec without a token is optional.
C14_MatchAcceptsExactly ==
    m_res # Pending =>
        (m_res.accepts <=>
            /\ Len(m_line) <= Len(m_instr.args)
            /\ \A k \in 1..Len(m_line) :
                  k <= Len(m_instr.args) => m_line[k].type \in m_instr.args[k].types
            /\ \A k \in (Len(m_line) + 1)..Len(m_instr.args) :
                  ~m_instr.args[k].required)

\* STO with the identifier alone is accepted: the second spec is optional
C14_Witness ==
    /\ m_instr = instructions[STO]
    /\ m_line = <<Idt(X)>>
    /\ m_res = [ok |-> TRUE, accepts |-> TRUE]

\* ------------------------------------------------------------------------
\* C15
\* ------------------------------------------------------------------------

\* the 8 bytes operand m of record k produced
OperandBytes(k, m) ==
    LET before == 1 + OperandsLen(SubSeq(instrs[k].args, 1, m - 1))
    IN  SubSeq(Segment(k), before + 1, before + 8)

\* the lines are `.x`, `STO x 1`, `.x`
IsRedeclareExample ==
    /\ Len(lines) = 3
    /\ IsVarDecl(lines[1], X)
    /\ lines[2] = <<Idt(STO), Idt(X), Num(<<"1">>)>>
    /\ IsVarDecl(lines[3], X)

\* C15: the bytes of an identifier operand are the id its name has in the
\* variable table while the encode pass runs; in the first compile() of
\* `.x`, `STO x 1`, `.x` the record of STO holds the id 2 of the second
\* declaration and the record of the first declaration holds the id 1.
C15_IdentifierEncodedWithFinalId ==
    Encoding =>
        /\ \A k \in 1..(j - 1) :
              \A m \in 1..Len(instrs[k].args) :
                  instrs[k].args[m].type = "IDT" =>
                      OperandBytes(k, m) =
                          BigEndian(NatOf(variables[instrs[k].args[m].value]), 8)
        /\ (IsRedeclareExample /\ Len(instrs) = 3 /\ j > 2) =>
              /\ Segment(1) = <<250, 254, 0, 0, 0, 0, 0, 0, 0, 1>>
              /\ Segment(2) = <<65, 0, 0, 0, 0, 0, 0, 0, 2,
                                    254, 0, 0, 0, 0, 0, 0, 0, 1>>

\* the first compile() of `.x`, `STO x 1`, `.x` has encoded its three records
C15_Witness ==
    /\ IsRedeclareExample
    /\ Len(instrs) = 3
    /\ Encoding
    /\ j = 4
    /\ variables[X] = <<"2">>

\* ------------------------------------------------------------------------
\* C16
\* ------------------------------------------------------------------------

RECURSIVE Flatten(_)
Flatten(ls) == IF ls = <<>> THEN <<>> ELSE Head(ls) \o Flatten(Tail(ls))

NotNewline(tok) == tok.type # "NEWLINE"

\* the opcode a statement stands for
OpcodeOf(l) ==
    CASE l[1].type = "IDT" -> instructions[l[1].value].byte
      [] l[1].type = "VAR" -> VAR.byte
      [] l[1].type = "GOTO" -> GOTO.byte

\* a call of compile() on the present Compiler has just returned its code
Returned ==
    /\ pc \in {"idle", "write"}
    /\ outputs # <<>>
    /\ outputs[Len(outputs)].inst = inst
    /\ outputs[Len(outputs)].res.ok

\* C16: the statements of getlines are non-empty, hold no NEWLINE token and
\* put end to end are the tokens without the NEWLINE tokens; the code a
\* successful compile() returns is one record per statement, in the order
\* of the statements, and nothing else.
C16_LinesKeepTokensAndOrder ==
    /\ \A k \in 1..Len(lines) :
          lines[k] # <<>> /\ \A m \in 1..Len(lines[k]) : NotNewline(lines[k][m])
    /\ Flatten(lines) = SelectSeq(tokens, NotNewline)
    /\ Returned =>
          /\ Len(instrs) = Len(lines)
          /\ \A k \in 1..Len(lines) :
                /\ k <= Len(instrs)
                /\ Segment(k)[1] = OpcodeOf(lines[k])
          /\ outputs[Len(outputs)].res.bytes = Flatten([k \in 1..Len(lines) |-> Segment(k)])

\* ------------------------------------------------------------------------
\* C17
\* ------------------------------------------------------------------------

\* the failures of the encode pass
EncodeKinds == {"CharacterOutOfRange", "IntegerTooLarge", "StringTooLong"}

\* C17: inside a call of compile() no record is encoded before every
\* statement is resolved: while a statement is still to be resolved, and
\* when one has been rejected, no byte has been produced and the failure
\* is not one of the encode pass; an encode failure is raised only after
\* all statements were accepted.
C17_EncodeAfterResolve ==
    /\ (InCall /\ (j > 1 \/ code # <<>>)) => i > Len(lines)
    /\ \A k \in 1..Len(lines) :
          Rejected(k) => (j = 1 /\ code = <<>> /\ err.kind \notin EncodeKinds)
    /\ (pc = "raised" /\ err.kind \in EncodeKinds) => i > Len(lines)

\* `OUTS` with a character above 255, then `GOTO x`: the call fails with
\* the unknown instruction of the second statement
C17_Witness ==
    /\ Len(lines) = 2
    /\ lines[1] = <<Idt(OUTS), Str(<<"U+20AC">>)>>
    /\ lines[2] = <<Idt(<<"G", "O", "T", "O">>), Idt(X)>>
    /\ Rejected(2)
    /\ err = Raise("CompilationError", "UnknownInstruction")

\* ------------------------------------------------------------------------
\* C18
\* ------------------------------------------------------------------------

\* the statement is a declaration, `.name` or `:name`
IsDeclaration(l) == Len(l) = 2 /\ l[1].type \in {"VAR", "GOTO"} /\ l[2].type = "IDT"

\* how many of the first k records are declaration records
DeclsUpTo(k) == Cardinality({m \in 1..k : IsDeclRecord(instrs[m])})

\* the step resolves the declaration statement lines[i] and accepts it
AcceptsDeclaration ==
    /\ pc = "compile"
    /\ i <= Len(lines)
    /\ IsDeclaration(lines[i])
    /\ i' = i + 1

\* C18: an accepted declaration appends exactly one record, which holds the
\* id just given to the name and nothing of the name; the record is a
\* declaration record exactly when its statement is a declaration, and its
\* bytes are the 10 bytes 250 (for `.name`) or 249 (for `:name`), 254 and
\* the id on 8 big-endian bytes.
C18_DeclarationRecord ==
    /\ [](\A k \in 1..Len(instrs) :
            /\ IsDeclRecord(instrs[k]) <=> IsDeclaration(LineOf(k))
            /\ IsDeclRecord(instrs[k]) =>
                  /\ instrs[k].byte = (IF LineOf(k)[1].type = "VAR" THEN 250 ELSE 249)
                  /\ Len(instrs[k].args) = 1
                  /\ instrs[k].args[1].type = "NUM"
                  /\ instrs[k].args[1].value = Numeral(DeclsUpTo(k))
                  /\ (Encoding /\ k < j) =>
                        /\ Len(code) >= Offset(k) + 10
                        /\ Len(Segment(k)) = 10
                        /\ Segment(k) = <<instrs[k].byte, 254>>
                                            \o BigEndian(DeclsUpTo(k), 8))
    /\ [][AcceptsDeclaration =>
            /\ Len(instrs') = Len(instrs) + 1
            /\ SubSeq(instrs', 1, Len(instrs)) = instrs
            /\ LET name == lines[i][2].value
                   rec  == instrs'[Len(instrs')]
                   tab  == IF lines[i][1].type = "VAR" THEN variables' ELSE gotos'
               IN  /\ tab[name] = var_goto_id
                   /\ rec.args[1].value = tab[name]]_vars

\* `.x` and `:x` encoded by the first compile() of a Compiler
C18_Witness ==
    /\ Len(lines) = 2
    /\ IsVarDecl(lines[1], X)
    /\ IsLabelDecl(lines[2], X)
    /\ Len(instrs) = 2
    /\ Encoding
    /\ j = 3
    /\ code = <<250, 254, 0, 0, 0, 0, 0, 0, 0, 1, 249, 254, 0, 0, 0, 0, 0, 0, 0, 2>>

\* ------------------------------------------------------------------------
\* C19
\* ------------------------------------------------------------------------

\* operand m is the first identifier among the operands of record c
FirstIdentifier(c, m) ==
    /\ c.args[m].type = "IDT"
    /\ \A n \in 1..(m - 1) : c.args[n].type # "IDT"

\* the table Compilable.compile reads for operand m of record c
TableRead(c, m) ==
    IF c.byte = 249 /\ FirstIdentifier(c, m)
    THEN Deref(c.gotos, gotos, default_gotos)
    ELSE Deref(c.vars, variables, default_vars)

\* C19: every identifier operand of every record of self.instrs is a key
\* of the table the encode pass reads for it, and the encode pass never
\* fails on a missing key.
C19_OperandsAreKeys ==
    /\ \A k \in 1..Len(instrs) :
          \A m \in 1..Len(instrs[k].args) :
              instrs[k].args[m].type = "IDT" =>
                  instrs[k].args[m].value \in DOMAIN TableRead(instrs[k], m)
    /\ pc = "raised" => err.cls # "KeyError"

\* `.x` and `STO x 42`: the record of STO, with its identifier operand,
\* has been encoded
C19_Witness ==
    /\ Len(lines) = 2
    /\ IsVarDecl(lines[1], X)
    /\ lines[2] = <<Idt(STO), Idt(X), Num(<<"4", "2">>)>>
    /\ Len(instrs) = 2
    /\ instrs[2].args[1] = Idt(X)
    /\ X \in DOMAIN variables
    /\ pc = "compile"
    /\ j = 3

\* ------------------------------------------------------------------------
\* C20
\* ------------------------------------------------------------------------

\* C20: every compile() of one Compiler returns what the first compile()
\* of that Compiler returned.  Violated: self.instrs and
\* self.var_goto_id are set in __init__ only, so a second compile()
\* returns the records of the first call followed by its own, and gives
\* its declarations the next ids.
C20_RepeatedCompileAgrees ==
    \A a, b \in 1..Len(outputs) :
        outputs[a].inst = outputs[b].inst => outputs[a].res = outputs[b].res

=============================================================================
